---- MODULE Spec2Model ----
(***************************************************************************)
(* The resumable crawl of backend/jobhunter_g.py: scrape_all_pages,        *)
(* scrape_current_page and handle_keep_alive, with the destination         *)
(* workbook, the keep-alive modal and the portal's listing as environment. *)
(*                                                                         *)
(* A record of the result set is modelled by its "Job ID" cell, the only   *)
(* column the program itself reads back.  A DataFrame is                   *)
(*     [ids |-> <the Job ID strings of its tracked rows, in order>,        *)
(*      bulk |-> <the number of further rows>]                             *)
(* where the bulk rows stand at the head of the frame and carry pairwise   *)
(* different six-digit ids that no listing row of the run shows (they make *)
(* a prior destination large enough to resume at a late page; the program  *)
(* only ever counts them).                                                 *)
(*                                                                         *)
(* Spec and LiveSpec are the crawl from the call of scrape_all_pages on;   *)
(* ExpirySpec is a first run of it against a portal that can end the       *)
(* session; FrontSpec and FrontLiveSpec are main() from its start to the   *)
(* first scan (session, perform_login, navigate_to_jobs, apply_filters),   *)
(* over repeated runs; ExtractSpec is extract_text_sections called on one  *)
(* snapshot; DetailSpec is scrape_current_page on one row, from the        *)
(* snapshot of its detail view to the closing of the view.                 *)
(***************************************************************************)
EXTENDS Integers, Sequences, FiniteSets, TLC

\* ---- program constants (jobhunter_g.py, SETTINGS) ----
JOBS_PER_PAGE_GUESS == 50
MAX_PAGES == 300

\* ---- bounds of the model ----
\* rows the listing shows in one run, all pages together
MaxListed == 3
\* pages the listing may have after the page the resume heuristic picks
MaxAhead == 1
\* tracked rows of the destination found at start
MaxPrior == 1

\* ---- Job ID strings ----
\* the ids of the postings the portal lists, as str
IdPool == <<"100001", "100002">>
\* str() of the same numbers held in a float64 column
FloatPool == <<"100001.0", "100002.0">>
NA == "N/A"
NaNStr == "nan"

PortalIds == {IdPool[k] : k \in 1..Len(IdPool)}

\* Job ID cells a destination left by an earlier run can hold: an id as
\* written by a first run or as rewritten by a resumed one, and the same for
\* the placeholder
PriorIdStrings == {IdPool[1], FloatPool[1], NA, NaNStr}

Range(s) == {s[k] : k \in 1..Len(s)}

SeqsUpTo(S, n) == UNION {[1..m -> S] : m \in 0..n}

PoolIndex(s) == CHOOSE k \in 1..Len(IdPool) : IdPool[k] = s \/ FloatPool[k] = s

\* ---- DataFrame ----
EmptyDF == [ids |-> <<>>, bulk |-> 0]

LenDF(df) == Len(df.ids) + df.bulk

\* pd.concat([all_jobs_df, new_df], ignore_index=True)
Concat(df, new_ids) == [ids |-> df.ids \o new_ids, bulk |-> df.bulk]

\* ---- the destination workbook ----
\* state: "absent" (no file), "ok" (a workbook holding ids/bulk),
\*        "unreadable" (a file that is no complete workbook)
AbsentFile == [state |-> "absent", ids |-> <<>>, bulk |-> 0]
UnreadableFile == [state |-> "unreadable", ids |-> <<>>, bulk |-> 0]

\* pandas' default NA strings among the cells this program writes
IsNaCell(s) == s \in {NA, NaNStr}

IsFloatCell(s) == s \in Range(FloatPool)

\* pd.read_excel on the "Job ID" column: text cells that look like numbers
\* are parsed as numbers, NA strings as NaN; one NaN or one float makes the
\* whole column float64, otherwise it is int64.
ColumnIsFloat(cells) == \E k \in 1..Len(cells) : IsNaCell(cells[k]) \/ IsFloatCell(cells[k])

\* .astype(str) of the parsed cell
AsTypeStr(cell, isFloat) ==
    IF IsNaCell(cell) THEN NaNStr
    ELSE IF isFloat THEN FloatPool[PoolIndex(cell)]
    ELSE IdPool[PoolIndex(cell)]

\* all_jobs_df = pd.read_excel(f); all_jobs_df['Job ID'] = ...astype(str)
ReadExcel(f) ==
    [ids |-> [k \in 1..Len(f.ids) |-> AsTypeStr(f.ids[k], ColumnIsFloat(f.ids))],
     bulk |-> f.bulk]

\* a faulty writer that leaves the last row out (the snapshot property C3 must
\* tell it from to_excel)
ToExcelDropsLastRow(df) ==
    [state |-> "ok", ids |-> SubSeq(df.ids, 1, Len(df.ids) - 1), bulk |-> df.bulk]

\* all_jobs_df.to_excel(f, index=False): str cells are written as text
ToExcel(df) == [state |-> "ok", ids |-> df.ids, bulk |-> df.bulk]

VARIABLES
    file,          \* the destination (output_file on disk)
    prior,         \* the destination as the run found it (never changes)
    last_page,     \* number of pages of the portal's listing
    modal,         \* the keep-alive modal is visible
    view,          \* a detail view is open over the listing
    pc,            \* position of the crawl
    all_jobs_df,
    existing_ids,
    start_page,
    current_page,
    count,         \* rows.count() of the page being scanned
    i,             \* row index of scrape_current_page's loop
    new_data,      \* new_data of scrape_current_page, new_jobs once returned
    cur,           \* what happened to the row last worked on
    budget,        \* rows the listing may still show in this run
    seen,          \* determined ids the rows of this page showed so far
    USERNAME,      \* os.getenv("WW_USERNAME")
    PASSWORD,      \* os.getenv("WW_PASSWORD")
    auth_file,     \* AUTH_FILE on disk
    session,       \* what the browser context is to the portal
    url,           \* page.url
    in_try,        \* perform_login was called inside main's try block
    probe,         \* how the goto of the dashboard ended in this run
    nav,           \* how navigate_to_jobs ended in this run
    toggles,       \* the portal's "Level" options, on or off
    applied,       \* what the last apply_filters call met and did
    runs,          \* runs of the program so far, this one included
    html_content,  \* the snapshot given to extract_text_sections
    soup,          \* the tree the last extract_text_sections call left
    outs,          \* the triples extract_text_sections returned so far
    means          \* the means of closing tried on the row's detail view, in order

crawlVars == <<file, prior, last_page, modal, view, all_jobs_df, existing_ids,
               start_page, current_page, count, i, new_data, cur, seen, budget>>

frontVars == <<USERNAME, PASSWORD, auth_file, session, url, in_try, probe, nav,
               toggles, applied, runs>>

extractVars == <<html_content, soup, outs, means>>

vars == <<pc, crawlVars, frontVars, extractVars>>

Final == {"done", "killed", "crashed"}

\* ---- the environment's choices ----
\* sizes of the bulk of a prior destination: just under one guessed page,
\* just under the page ceiling
BulkSizes == {JOBS_PER_PAGE_GUESS - 1, JOBS_PER_PAGE_GUESS * MAX_PAGES - 1}

PriorFiles ==
    {AbsentFile, UnreadableFile} \cup
    {[state |-> "ok", ids |-> s, bulk |-> b] : s \in SeqsUpTo(PriorIdStrings, MaxPrior), b \in BulkSizes}

\* the page a destination of that size resumes at
ResumePage(f) == (LenDF(f) \div JOBS_PER_PAGE_GUESS) + 1

\* the listing ends one page before the resume page, at it, or up to
\* MaxAhead pages after it
ListingSizes(f) ==
    {n \in (ResumePage(f) - 1)..(ResumePage(f) + MaxAhead) : n >= 1}

\* a[aria-label='Go to next page'] on page p: "enabled", or on the last
\* page "disabled" (class) or "absent" (not visible); a session the portal
\* no longer accepts is shown the login page, which has no such control
NextControl(p) ==
    IF session # "authenticated" THEN {"absent"}
    ELSE IF p < last_page THEN {"enabled"} ELSE {"disabled", "absent"}

\* ---- handle_keep_alive(page) ----
\* what the call returns and whether the modal is visible afterwards; the
\* dismissal itself can fail (the except branch), leaving the modal up
handle_keep_alive(m) ==
    IF m THEN {[ret |-> TRUE, modal |-> FALSE], [ret |-> FALSE, modal |-> TRUE]}
    ELSE {[ret |-> FALSE, modal |-> FALSE]}

\* ---- per-row bookkeeping ----
\* kind: the row's link; clicks, blocked, dismissed: clicks made, clicks made
\* under the modal and modals dismissed in the click loop so far (the loop's
\* counters end with the loop); retried: the click succeeded after a blocked
\* one; opened, id, extracted: the header showed, the id read, the snapshot
\* extracted; before: new_data when the row began
NoRow == [kind |-> "none", clicks |-> 0, blocked |-> 0, dismissed |-> 0,
          success |-> FALSE, retried |-> FALSE, opened |-> FALSE, id |-> NA,
          extracted |-> FALSE, before |-> <<>>, outcome |-> "none"]

\* ---- the session, the "Level" filter and the snapshot ----
\* os.getenv gives None for a variable that is not set
None == "None"
Credentials == {None, "set"}

\* AUTH_FILE: not there, holding an authenticated session, or holding one the
\* portal does not (or no longer) accept
AuthFiles == {"absent", "authenticated", "stale"}

\* the options of the "Level" drop-down, and target_levels of apply_filters
Levels == {"Junior", "Intermediate", "Senior"}
target_levels == <<"Junior", "Intermediate">>

\* before: the options when apply_filters was called; found: the target rows
\* it saw visible; step: how far it got ("none": not called yet)
NoApplication == [before |-> [l \in Levels |-> FALSE], found |-> {}, step |-> "none"]

\* a run that has come through main() to the call of scrape_all_pages
AtTheListing ==
    /\ USERNAME = "set"
    /\ PASSWORD = "set"
    /\ auth_file = "authenticated"
    /\ session = "authenticated"
    /\ url = "jobs"
    /\ in_try = FALSE
    /\ probe = "dashboard"
    /\ nav = "ok"
    /\ toggles = [l \in Levels |-> FALSE]
    /\ applied = NoApplication
    /\ runs = 1

\* no snapshot has been taken
NoExtraction ==
    /\ html_content = <<>>
    /\ soup = <<>>
    /\ outs = <<>>
    /\ means = <<>>

Init ==
    /\ prior \in PriorFiles
    /\ file = prior
    /\ last_page \in ListingSizes(prior)
    /\ modal = FALSE
    /\ view = FALSE
    /\ pc = "load"
    /\ all_jobs_df = EmptyDF
    /\ existing_ids = {}
    /\ start_page = 1
    /\ current_page = 1
    /\ count = 0
    /\ i = 0
    /\ new_data = <<>>
    /\ cur = NoRow
    /\ seen = {}
    /\ budget = MaxListed
    /\ AtTheListing
    /\ NoExtraction

\* scrape_all_pages, "1. READ EXISTING FILE"
LoadCheckpoint ==
    /\ pc = "load"
    /\ UNCHANGED <<frontVars, extractVars>>
    /\ IF file.state = "ok"
         THEN /\ all_jobs_df' = ReadExcel(file)
              /\ existing_ids' = Range(ReadExcel(file).ids)
              /\ start_page' = (LenDF(ReadExcel(file)) \div JOBS_PER_PAGE_GUESS) + 1
         ELSE \* no file, or read_excel raises: "Starting fresh"
              /\ all_jobs_df' = EmptyDF
              /\ existing_ids' = {}
              /\ start_page' = 1
    /\ pc' = "filters"
    /\ UNCHANGED <<file, prior, last_page, budget, modal, view, current_page, count, i,
                   new_data, cur, seen>>

\* the "All Jobs" click and apply_filters(page): the listing reloads at page 1
SwitchViewAndFilter ==
    /\ pc = "filters"
    /\ UNCHANGED <<frontVars, extractVars>>
    /\ current_page' = 1
    /\ pc' = "ff"
    /\ UNCHANGED <<file, prior, last_page, budget, modal, view, all_jobs_df, existing_ids,
                   start_page, count, i, new_data, cur, seen>>

\* memory of a process that is gone
Gone(p) ==
    /\ pc' = p
    /\ all_jobs_df' = EmptyDF
    /\ existing_ids' = {}
    /\ start_page' = 1
    /\ current_page' = 1
    /\ count' = 0
    /\ i' = 0
    /\ new_data' = <<>>
    /\ cur' = NoRow
    /\ seen' = {}
    /\ budget' = 0
    /\ view' = FALSE

\* a faulty loop condition that skips one page more
BehindStartPageOrOnIt(p, sp) == p <= sp

\* while current_page < start_page
BehindStartPage(p, sp) == p < sp

\* scrape_all_pages, "2. FAST FORWARD LOOP": one pass of the while
FastForward ==
    /\ pc = "ff"
    /\ UNCHANGED <<frontVars, extractVars>>
    /\ IF BehindStartPage(current_page, start_page)
         THEN \E ctl \in NextControl(current_page) :
                IF ctl = "enabled"
                  THEN IF modal
                         THEN \* next_btn.click() times out under the modal; nothing catches it
                              Gone("crashed") /\ UNCHANGED <<file, prior, last_page, modal>>
                         ELSE /\ current_page' = current_page + 1
                              /\ UNCHANGED <<file, prior, last_page, budget, modal, view, pc,
                                             all_jobs_df, existing_ids, start_page, count,
                                             i, new_data, cur, seen>>
                  ELSE /\ pc' = "loop"
                       /\ UNCHANGED <<file, prior, last_page, budget, modal, view, all_jobs_df,
                                      existing_ids, start_page, current_page, count, i,
                                      new_data, cur, seen>>
         ELSE /\ pc' = "loop"
              /\ UNCHANGED <<file, prior, last_page, budget, modal, view, all_jobs_df,
                             existing_ids, start_page, current_page, count, i,
                             new_data, cur, seen>>

\* a faulty loop condition, one page too generous
LoopConditionOffByOne(p) == p <= MAX_PAGES + 1

\* while current_page <= MAX_PAGES
LoopCondition(p) == p <= MAX_PAGES

\* a faulty handler that lets the timeout of the wait leave the crawl
OnTableTimeoutRaises == "crashed"

\* except: return []: the caller goes on with no rows
OnTableTimeout == "merge"

\* top of the main loop and of scrape_current_page: handle_keep_alive twice,
\* then the wait for "table tbody tr"; n = 0 is the wait timing out (return []),
\* as it does on the login page
ScanStart ==
    /\ pc = "loop"
    /\ UNCHANGED <<frontVars, extractVars>>
    /\ IF LoopCondition(current_page)
         THEN \E k1 \in handle_keep_alive(modal) :
              \E k2 \in handle_keep_alive(k1.modal) :
              \E n \in 0..(IF session = "authenticated" THEN budget ELSE 0) :
                /\ modal' = k2.modal
                /\ count' = n
                /\ budget' = budget - n
                /\ pc' = IF n = 0 THEN OnTableTimeout ELSE "row"
                /\ i' = 0
                /\ new_data' = <<>>
                            /\ seen' = {}
                /\ cur' = NoRow
                /\ UNCHANGED <<file, prior, last_page, view, all_jobs_df, existing_ids,
                               start_page, current_page>>
         ELSE /\ pc' = "done"
              /\ UNCHANGED <<file, prior, last_page, budget, modal, view, all_jobs_df,
                             existing_ids, start_page, current_page, count, i,
                             new_data, cur, seen>>

\* the row's first link: not visible, visible with an empty text, or a link
RowKinds == {"hidden", "untitled", "link"}

\* for i in range(count): up to the click loop; i = count is "return new_data"
RowStart ==
    /\ pc = "row"
    /\ UNCHANGED <<frontVars, extractVars>>
    /\ IF i = count
         THEN /\ pc' = "merge"
              /\ UNCHANGED <<file, prior, last_page, budget, modal, view, all_jobs_df,
                             existing_ids, start_page, current_page, count, i,
                             new_data, cur, seen>>
         ELSE \E k \in (IF i % 5 = 0 THEN handle_keep_alive(modal)
                                     ELSE {[ret |-> FALSE, modal |-> modal]}) :
              \E kind \in RowKinds :
                /\ modal' = k.modal
                /\ cur' = [NoRow EXCEPT !.kind = kind,
                                        !.before = new_data,
                                        !.outcome = IF kind = "link" THEN "none" ELSE "skipped"]
                /\ pc' = IF kind = "link" THEN "click" ELSE "rowend"
                /\ UNCHANGED <<file, prior, last_page, budget, view, all_jobs_df, existing_ids,
                               start_page, current_page, count, i, new_data, seen>>

\* for attempt in range(3)
ClickAttempts == 3

\* job_link.click(timeout=5000): under the modal or a left-open detail view
\* the link does not receive the click
ClickOutcomes(m, v) ==
    IF m \/ v THEN {"timeout", "intercepts"}
    ELSE {"ok", "timeout", "intercepts", "error"}

\* a faulty click loop that gives up on a timeout as well
ClickLoopBreaksOnTimeout(o) == o \in {"error", "timeout"}

\* the except branches of the click loop: only an error that is neither a
\* TimeoutError nor an interception breaks out of the loop
ClickLoopBreaks(o) == o = "error"

\* one pass of the click loop
ClickAttempt ==
    /\ pc = "click"
    /\ UNCHANGED <<frontVars, extractVars>>
    /\ \E o \in ClickOutcomes(modal, view) :
         IF o = "ok"
           THEN /\ cur' = [cur EXCEPT !.clicks = @ + 1, !.success = TRUE,
                                      !.retried = (cur.blocked > 0)]
                /\ pc' = "detail"
                /\ UNCHANGED modal
           ELSE \E k \in (IF ClickLoopBreaks(o) THEN {[ret |-> FALSE, modal |-> modal]}
                                               ELSE handle_keep_alive(modal)) :
                  /\ modal' = k.modal
                  /\ IF ~ClickLoopBreaks(o) /\ cur.clicks + 1 < ClickAttempts
                       THEN /\ pc' = "click"
                            /\ cur' = [cur EXCEPT !.clicks = @ + 1,
                                          !.blocked = @ + (IF modal THEN 1 ELSE 0),
                                          !.dismissed = @ + (IF k.ret THEN 1 ELSE 0)]
                       ELSE \* if not click_success: continue
                            /\ pc' = "rowend"
                            /\ cur' = [cur EXCEPT !.clicks = @ + 1,
                                          !.blocked = @ + (IF modal THEN 1 ELSE 0),
                                          !.dismissed = @ + (IF k.ret THEN 1 ELSE 0),
                                          !.outcome = "abandoned"]
    /\ UNCHANGED <<file, prior, last_page, budget, view, all_jobs_df, existing_ids, start_page,
                   current_page, count, i, new_data, seen>>

LoopEnded(r) == [r EXCEPT !.clicks = 0, !.blocked = 0, !.dismissed = 0]

\* a faulty check that takes every determined id for a known one
IsDuplicateWhateverKnown(job_id, ids) == job_id # NA

\* faulty duplicate checks: one without the placeholder guard, one that never
\* finds a duplicate
IsDuplicateNoGuard(job_id, ids) == job_id \in ids
IsDuplicateNever(job_id, ids) == FALSE

\* if job_id != "N/A" and job_id in existing_ids
IsDuplicate(job_id, ids) == job_id # NA /\ job_id \in ids

\* a faulty handler that lets the error out of scrape_current_page
OnPopupErrorPropagates == "crashed"

\* except Exception as e: logger.warning("Popup error"): the row goes on to
\* the closing block
OnPopupError == "close"

\* the try block after a successful click: wait for the header, read the id,
\* skip a duplicate, else snapshot, extract and append
Detail ==
    /\ pc = "detail"
    /\ UNCHANGED <<frontVars, extractVars>>
    /\ \/ \* header_loc.wait_for times out: "Popup error"
          /\ view' \in BOOLEAN
          /\ pc' = OnPopupError
          /\ cur' = [LoopEnded(cur) EXCEPT !.outcome = "failed"]
          /\ UNCHANGED <<new_data, seen>>
       \/ \E id \in (PortalIds \ seen) \cup {NA} :
            IF IsDuplicate(id, existing_ids)
              THEN \* Escape, then continue: the closing block is not reached
                   /\ cur' = [LoopEnded(cur) EXCEPT !.opened = TRUE, !.id = id,
                                                    !.outcome = "duplicate"]
                   /\ view' \in BOOLEAN
                   /\ pc' = "rowend"
                   /\ seen' = seen \cup {id}
                   /\ UNCHANGED new_data
              ELSE \E ok \in BOOLEAN :   \* page.content() / extraction raises or not
                   /\ cur' = [LoopEnded(cur) EXCEPT !.opened = TRUE, !.id = id,
                                         !.extracted = ok,
                                         !.outcome = IF ok THEN "record" ELSE "failed"]
                   /\ view' = TRUE
                   /\ new_data' = IF ok THEN Append(new_data, id) ELSE new_data
                   /\ seen' = seen \cup ({id} \ {NA})
                   /\ pc' = IF ok THEN "close" ELSE OnPopupError
    /\ UNCHANGED <<file, prior, last_page, budget, modal, all_jobs_df, existing_ids, start_page,
                   current_page, count, i>>

\* "GHOST BUTTON FIX": Escape, then a script click on the close button if the
\* header is still visible; both can be ineffective
CloseDetail ==
    /\ pc = "close"
    /\ UNCHANGED <<frontVars, extractVars>>
    /\ view' \in (IF view THEN BOOLEAN ELSE {FALSE})
    /\ pc' = "rowend"
    /\ UNCHANGED <<file, prior, last_page, budget, modal, all_jobs_df, existing_ids, start_page,
                   current_page, count, i, new_data, cur, seen>>

\* the for loop moves to the next row
NextRow ==
    /\ pc = "rowend"
    /\ UNCHANGED <<frontVars, extractVars>>
    /\ i' = i + 1
    /\ cur' = NoRow
    /\ pc' = "row"
    /\ UNCHANGED <<file, prior, last_page, budget, modal, view, all_jobs_df, existing_ids,
                   start_page, current_page, count, new_data, seen>>

\* a faulty test that takes every list for a non-empty one
TruthyAlways(new_jobs) == TRUE

\* if new_jobs: an empty list is false
Truthy(new_jobs) == new_jobs # <<>>

\* if new_jobs: concat, reorder the columns, and to_excel opens the
\* destination for writing (which truncates it); else nothing
Merge ==
    /\ pc = "merge"
    /\ UNCHANGED <<frontVars, extractVars>>
    /\ IF Truthy(new_data)
         THEN /\ all_jobs_df' = Concat(all_jobs_df, new_data)
              /\ file' = UnreadableFile
              /\ pc' = "saving"
         ELSE /\ pc' = "next"
              /\ UNCHANGED <<all_jobs_df, file>>
    /\ count' = 0
    /\ i' = 0
    /\ cur' = NoRow
    /\ seen' = {}
    /\ UNCHANGED <<prior, last_page, budget, modal, view, existing_ids, start_page,
                   current_page, new_data>>

\* a faulty update that puts the new ids in the place of the old ones
UpdateIdsReplaces(ids, new_ids) == Range(new_ids)

\* existing_ids.update(new_df['Job ID'].tolist())
UpdateIds(ids, new_ids) == ids \cup Range(new_ids)

\* to_excel writes the workbook out and closes it; then existing_ids.update
SaveDone ==
    /\ pc = "saving"
    /\ UNCHANGED <<frontVars, extractVars>>
    /\ file' = ToExcel(all_jobs_df)
    /\ existing_ids' = UpdateIds(existing_ids, new_data)
    /\ pc' = "next"
    /\ UNCHANGED <<prior, last_page, budget, modal, view, all_jobs_df, start_page,
                   current_page, count, i, new_data, cur, seen>>

\* "Checking for next page..."
CheckNext ==
    /\ pc = "next"
    /\ UNCHANGED <<frontVars, extractVars>>
    /\ \E ctl \in NextControl(current_page) :
         IF ctl = "enabled"
           THEN IF modal \/ view
                  THEN \* next_btn.click() times out under the overlay; nothing catches it
                       Gone("crashed") /\ UNCHANGED <<file, prior, last_page, modal>>
                  ELSE /\ current_page' = current_page + 1
                       /\ pc' = "loop"
                       /\ UNCHANGED <<file, prior, last_page, budget, modal, view, all_jobs_df,
                                      existing_ids, start_page, count, i, new_data, cur, seen>>
           ELSE /\ pc' = "done"
                /\ UNCHANGED <<file, prior, last_page, budget, modal, view, all_jobs_df,
                               existing_ids, start_page, current_page, count, i,
                               new_data, cur, seen>>

\* ---- the environment ----
\* the session keep-alive modal can come up at any time
ModalAppears ==
    /\ pc \notin Final
    /\ UNCHANGED <<frontVars, extractVars>>
    /\ ~modal
    /\ modal' = TRUE
    /\ UNCHANGED <<file, prior, last_page, budget, view, pc, all_jobs_df, existing_ids,
                   start_page, current_page, count, i, new_data, cur, seen>>

\* the process is killed from outside
Kill ==
    /\ pc \notin Final
    /\ UNCHANGED <<frontVars, extractVars>>
    /\ Gone("killed")
    /\ modal' = FALSE
    /\ UNCHANGED <<file, prior, last_page>>

Step ==
    \/ LoadCheckpoint
    \/ SwitchViewAndFilter
    \/ FastForward
    \/ ScanStart
    \/ RowStart
    \/ ClickAttempt
    \/ Detail
    \/ CloseDetail
    \/ NextRow
    \/ Merge
    \/ SaveDone
    \/ CheckNext

Next == Step \/ ModalAppears \/ Kill

Spec == Init /\ [][Next]_vars

\* the program keeps running unless it is killed
LiveSpec == Spec /\ WF_vars(Step)

\* ---- the session ends during the crawl ----
\* the portal stops accepting the session between two pages: from then on
\* it serves its login page
SessionExpires ==
    /\ pc \in {"ff", "loop", "next"}
    /\ session = "authenticated"
    /\ session' = "none"
    /\ url' = "notLoggedIn"
    /\ UNCHANGED <<pc, crawlVars, extractVars>>
    /\ UNCHANGED <<USERNAME, PASSWORD, auth_file, in_try, probe, nav, toggles, applied, runs>>

\* a first run: no destination yet
ExpiryInit == Init /\ prior = AbsentFile

ExpiryNext == Next \/ SessionExpires

\* scrape_all_pages against a portal that can end the session
ExpirySpec == ExpiryInit /\ [][ExpiryNext]_vars

\* ---- main(): restoring and validating the session ----
\* runs of the program against the same portal and the same AUTH_FILE
MaxRuns == 2

SessionPcs == {"restore", "validate", "login", "credentials", "await_dashboard",
               "save_session"}
\* main() is at or past "if 'jobs.htm' not in page.url"
PastLogin == {"navigate", "load", "filters", "ff", "loop", "merge"}

\* context = browser.new_context(storage_state=AUTH_FILE) if the file exists,
\* else browser.new_context(); page = context.new_page()
Restore ==
    /\ pc = "restore"
    /\ session' = IF auth_file = "authenticated" THEN "authenticated" ELSE "none"
    /\ url' = "blank"
    /\ pc' = "validate"
    /\ UNCHANGED <<USERNAME, PASSWORD, auth_file, in_try, probe, nav, toggles, applied, runs>>
    /\ UNCHANGED <<crawlVars, extractVars>>

\* page.goto of the dashboard: a transport or navigation error, or the page
\* the portal serves: the dashboard to an authenticated session, its
\* "notLoggedIn" page to any other
GotoOutcomes(sess) ==
    {"error"} \cup (IF sess = "authenticated" THEN {"dashboard"} ELSE {"notLoggedIn"})

\* a faulty handler that lets the error of the goto end the process
OnProbeErrorFatal == "crashed"

\* except: perform_login(page, context)
OnProbeError == "login"

\* try: page.goto(dashboard); if "notLoggedIn" in page.url: perform_login
\* except: perform_login
Validate ==
    /\ pc = "validate"
    /\ \E o \in GotoOutcomes(session) :
         /\ probe' = o
         /\ url' = IF o = "error" THEN url ELSE o
         /\ pc' = IF o = "error" THEN OnProbeError
                  ELSE IF o = "notLoggedIn" THEN "login" ELSE "navigate"
         /\ in_try' = (o = "notLoggedIn")
    /\ UNCHANGED <<USERNAME, PASSWORD, auth_file, session, nav, toggles, applied, runs>>
    /\ UNCHANGED <<crawlVars, extractVars>>

\* ---- perform_login(page, context) ----
\* an exception inside perform_login: the call made inside main's try block
\* ends in the except branch, which calls perform_login again; the call made
\* from the except branch ends the process
PerformLoginRaises ==
    /\ pc' = IF in_try THEN "login" ELSE "crashed"
    /\ in_try' = FALSE

\* page.goto(ENTRY_URL), the two links of the "notLoggedIn" page, and
\* input#userNameInput.is_visible(), which does not wait: an authenticated
\* session is sent on to the dashboard; any other sees the form, or not yet
LoginOpen ==
    /\ pc = "login"
    /\ \/ /\ PerformLoginRaises
          /\ UNCHANGED url
       \/ \E visible \in (IF session = "authenticated" THEN {FALSE} ELSE BOOLEAN) :
            /\ url' = IF session = "authenticated" THEN "dashboard" ELSE "login"
            /\ pc' = IF visible THEN "credentials" ELSE "save_session"
            /\ UNCHANGED in_try
    /\ UNCHANGED <<USERNAME, PASSWORD, auth_file, session, probe, nav, toggles, applied, runs>>
    /\ UNCHANGED <<crawlVars, extractVars>>

\* page.fill of the two inputs (a value of None raises) and the submit click
LoginSubmit ==
    /\ pc = "credentials"
    /\ IF USERNAME = None \/ PASSWORD = None
         THEN PerformLoginRaises
         ELSE \/ PerformLoginRaises
              \/ pc' = "await_dashboard" /\ UNCHANGED in_try
    /\ UNCHANGED <<USERNAME, PASSWORD, auth_file, session, url, probe, nav, toggles, applied,
                   runs>>
    /\ UNCHANGED <<crawlVars, extractVars>>

\* timeout=0 of page.wait_for_url: no limit
DASHBOARD_WAIT_TIMEOUT == 0

\* a faulty wait that gives up whatever its timeout
wait_for_urlGivesUp(timeout) == {"arrived", "TimeoutError"}

\* page.wait_for_url(url, timeout=...): how the call can end
wait_for_url(timeout) == IF timeout = 0 THEN {"arrived"} ELSE {"arrived", "TimeoutError"}

\* page.wait_for_url(dashboard, timeout=0) returns: the portal accepted the
\* login (second factor included); until then the call waits, without limit
AwaitDashboard ==
    /\ pc = "await_dashboard"
    /\ \E o \in wait_for_url(DASHBOARD_WAIT_TIMEOUT) :
         IF o = "arrived"
           THEN /\ session' = "authenticated"
                /\ url' = "dashboard"
                /\ pc' = "save_session"
                /\ UNCHANGED in_try
           ELSE /\ PerformLoginRaises
                /\ UNCHANGED <<session, url>>
    /\ UNCHANGED <<USERNAME, PASSWORD, auth_file, probe, nav, toggles, applied, runs>>
    /\ UNCHANGED <<crawlVars, extractVars>>

\* context.storage_state(path=AUTH_FILE), and perform_login returns
SaveSession ==
    /\ pc = "save_session"
    /\ auth_file' = IF session = "authenticated" THEN "authenticated" ELSE "stale"
    /\ in_try' = FALSE
    /\ pc' = "navigate"
    /\ UNCHANGED <<USERNAME, PASSWORD, session, url, probe, nav, toggles, applied, runs>>
    /\ UNCHANGED <<crawlVars, extractVars>>

\* ---- navigate_to_jobs(page) ----
\* a faulty handler that lets the error out of navigate_to_jobs
OnNavigationErrorRaises == "crashed"

\* except Exception as e: logger.error("Navigation failed"); main goes on to
\* scrape_all_pages
OnNavigationError == "load"

\* if "jobs.htm" not in page.url: navigate_to_jobs(page), whose menu links
\* exist only for an authenticated session; then scrape_all_pages is called
Navigate ==
    /\ pc = "navigate"
    /\ \E o \in (IF session = "authenticated" THEN {"ok", "failed"} ELSE {"failed"}) :
         /\ nav' = o
         /\ url' = IF o = "ok" THEN "jobs" ELSE url
         /\ pc' = IF o = "ok" THEN "load" ELSE OnNavigationError
    /\ UNCHANGED <<USERNAME, PASSWORD, auth_file, session, in_try, probe, toggles, applied,
                   runs>>
    /\ UNCHANGED <<crawlVars, extractVars>>

\* ---- apply_filters(page) ----
\* a faulty test that clicks the toggle whatever its state
ShouldToggleAlways(is_on) == TRUE

\* is_on = row.locator("i.toggle-on").is_visible(); if not is_on: click
ShouldToggle(is_on) == ~is_on

\* for level in target_levels: a visible row whose option is off is clicked,
\* which flips the option; a click that raises ends the loop (the outer
\* except).  found collects the rows seen visible.
RECURSIVE ToggleLevels(_, _, _, _, _)
ToggleLevels(t, levels, visible, broken, found) ==
    IF levels = <<>>
      THEN [toggles |-> t, found |-> found, raised |-> FALSE]
      ELSE LET level == Head(levels)
           IN  IF level \notin visible
                 THEN ToggleLevels(t, Tail(levels), visible, broken, found)
                 ELSE IF ~ShouldToggle(t[level])
                   THEN ToggleLevels(t, Tail(levels), visible, broken, found \cup {level})
                   ELSE IF level \in broken
                     THEN [toggles |-> t, found |-> found \cup {level}, raised |-> TRUE]
                     ELSE ToggleLevels([t EXCEPT ![level] = ~@], Tail(levels), visible,
                                       broken, found \cup {level})

\* the whole call: no "Level" button, or the drop-down does not open, or the
\* loop over target_levels and the click that closes the drop-down
apply_filters(t, btn, opens, visible, broken) ==
    IF ~btn THEN [toggles |-> t, found |-> {}, step |-> "no_button"]
    ELSE IF ~opens THEN [toggles |-> t, found |-> {}, step |-> "no_dropdown"]
    ELSE LET r == ToggleLevels(t, target_levels, visible, broken, {})
         IN  [toggles |-> r.toggles, found |-> r.found,
              step |-> IF r.raised THEN "error" ELSE "ok"]

\* a faulty handler that goes past the fast-forward
OnFilterErrorSkipsFastForward == "loop"

\* except Exception as e: logger.error("Error applying filters"); the call
\* returns and scrape_all_pages goes on to the fast-forward
OnFilterError == "ff"

\* scrape_all_pages: the "All Jobs" click (errors passed over),
\* apply_filters(page) and current_page = 1, with what the call meets in the
\* page drawn here
ApplyFilters ==
    /\ pc = "filters"
    /\ \E btn, opens \in BOOLEAN :
       \E visible \in SUBSET Range(target_levels) :
       \E broken \in SUBSET visible :
         LET r == apply_filters(toggles, btn, opens, visible, broken)
         IN  /\ toggles' = r.toggles
             /\ applied' = [before |-> toggles, found |-> r.found, step |-> r.step]
             /\ pc' = IF r.step = "error" THEN OnFilterError ELSE "ff"
    /\ current_page' = 1
    /\ UNCHANGED <<USERNAME, PASSWORD, auth_file, session, url, in_try, probe, nav, runs>>
    /\ UNCHANGED <<file, prior, last_page, modal, view, all_jobs_df, existing_ids,
                   start_page, count, i, new_data, cur, seen, budget, extractVars>>

\* the program is started again: a new browser, the same AUTH_FILE (which
\* the portal may have stopped accepting meanwhile) and the same options
Rerun ==
    /\ pc \in {"ff", "crashed"}
    /\ runs < MaxRuns
    /\ runs' = runs + 1
    /\ auth_file' \in (IF auth_file = "authenticated" THEN {"authenticated", "stale"}
                       ELSE {auth_file})
    /\ session' = "none"
    /\ url' = "blank"
    /\ in_try' = FALSE
    /\ probe' = "none"
    /\ nav' = "none"
    /\ applied' = NoApplication
    /\ pc' = "restore"
    /\ UNCHANGED <<USERNAME, PASSWORD, toggles>>
    /\ UNCHANGED <<crawlVars, extractVars>>

\* nothing crawled yet, no destination, a listing of one page
NothingCrawled ==
    /\ file = AbsentFile
    /\ prior = AbsentFile
    /\ last_page = 1
    /\ modal = FALSE
    /\ view = FALSE
    /\ all_jobs_df = EmptyDF
    /\ existing_ids = {}
    /\ start_page = 1
    /\ current_page = 1
    /\ count = 0
    /\ i = 0
    /\ new_data = <<>>
    /\ cur = NoRow
    /\ seen = {}
    /\ budget = 0

\* the program at its start
FrontInit ==
    /\ pc = "restore"
    /\ USERNAME \in Credentials
    /\ PASSWORD \in Credentials
    /\ auth_file \in AuthFiles
    /\ session = "none"
    /\ url = "blank"
    /\ in_try = FALSE
    /\ probe = "none"
    /\ nav = "none"
    /\ toggles \in [Levels -> BOOLEAN]
    /\ applied = NoApplication
    /\ runs = 1
    /\ NothingCrawled
    /\ NoExtraction

FrontNext ==
    \/ Restore
    \/ Validate
    \/ LoginOpen
    \/ LoginSubmit
    \/ AwaitDashboard
    \/ SaveSession
    \/ Navigate
    \/ LoadCheckpoint
    \/ ApplyFilters
    \/ FastForward
    \/ ScanStart
    \/ Rerun

\* main() from its start to the first scan of scrape_all_pages
FrontSpec == FrontInit /\ [][FrontNext]_vars

\* every call of main() ends, the wait for the dashboard excepted; whether
\* the program is started again is up to the user
FrontProgress ==
    \/ Restore
    \/ Validate
    \/ LoginOpen
    \/ LoginSubmit
    \/ SaveSession
    \/ Navigate
    \/ LoadCheckpoint
    \/ ApplyFilters
    \/ FastForward
    \/ ScanStart

FrontLiveSpec == FrontSpec /\ WF_vars(FrontProgress)

\* ---- extract_text_sections(html_content) ----
\* elements of a snapshot, and calls made on one snapshot
MaxBlocks == 2
MaxCalls == 2

\* the three calls of get_clean_text, in order
Keywords == <<"Job Summary", "Job Responsibilities", "Required Skills">>
Texts == {"a", "b"}

\* a text is a sequence of pieces, each a set of strings: the keywords of a
\* label span still in the tree, or one string of Texts
NotFound == <<{"Not Found"}>>
AttributeError == <<{"AttributeError"}>>

\* where an element stands: outside every div.tag__key-value-list, first in
\* one of its own, or in the one of the element before it
Places == {"none", "own", "shared"}

\* one element of the snapshot with its text: keys are the keywords that the
\* string of its span.label contains (none: no such span)
Elements == [keys : SUBSET Range(Keywords), place : Places, text : Texts]

\* a faulty parse that goes on with the tree of the call before
BeautifulSoupReused(h) ==
    IF outs = <<>>
      THEN [k \in 1..Len(h) |-> [keys |-> h[k].keys, place |-> h[k].place,
                                 text |-> h[k].text, label |-> h[k].keys # {}]]
      ELSE soup

\* soup = BeautifulSoup(html_content, "html.parser"): a new tree, in which
\* every label span is in place
BeautifulSoup(h) ==
    [k \in 1..Len(h) |-> [keys |-> h[k].keys, place |-> h[k].place, text |-> h[k].text,
                          label |-> h[k].keys # {}]]

\* soup.find("span", class_="label", string=lambda t: t and label_keyword in t):
\* the first such span still in the tree, 0 for None
find(s, label_keyword) ==
    LET hits == {k \in 1..Len(s) : s[k].label /\ label_keyword \in s[k].keys}
    IN  IF hits = {} THEN 0 ELSE CHOOSE k \in hits : \A j \in hits : k <= j

\* a faulty test that takes None for a span
IsNoneNever(label_span) == FALSE

\* if not label_span
IsNone(label_span) == label_span = 0

\* label_span.find_parent("div", class_="tag__key-value-list"): the first
\* element of the container around element k, 0 for None
find_parent(s, k) ==
    LET head == CHOOSE j \in 1..k : /\ (j = 1 \/ s[j].place # "shared")
                                    /\ \A m \in (j + 1)..k : s[m].place = "shared"
    IN  IF s[head].place = "none" THEN 0 ELSE head

\* a faulty removal that takes every later label span with it
decomposeRest(s, label_span) ==
    [k \in 1..Len(s) |-> IF k >= label_span THEN [s[k] EXCEPT !.label = FALSE] ELSE s[k]]

\* label_span.decompose(): the span leaves the tree
decompose(s, label_span) == [s EXCEPT ![label_span].label = FALSE]

\* container.get_text(separator="\n", strip=True) from element k on: the
\* strings of all that is inside the container, label spans included
RECURSIVE get_text(_, _, _)
get_text(s, container, k) ==
    IF k > Len(s) THEN <<>>
    ELSE (IF find_parent(s, k) = container
            THEN (IF s[k].label THEN <<s[k].keys>> ELSE <<>>) \o <<{s[k].text}>>
            ELSE <<>>) \o get_text(s, container, k + 1)

\* get_clean_text(label_keyword) on the tree s: the text and the tree after
\* it; None.find_parent raises AttributeError
get_clean_text(s, label_keyword) ==
    LET label_span == find(s, label_keyword)
    IN  IF IsNone(label_span) THEN [text |-> NotFound, soup |-> s]
        ELSE IF label_span = 0 THEN [text |-> AttributeError, soup |-> s]
        ELSE LET container == find_parent(s, label_span)
                 t == decompose(s, label_span)
             IN  IF container # 0
                   THEN [text |-> get_text(t, container, 1), soup |-> t]
                   ELSE [text |-> NotFound, soup |-> s]

\* what a call that raises gives its caller
Raised == <<AttributeError>>

\* the three get_clean_text calls on one tree, and the tree they leave
extract_text_sections(s0) ==
    LET a == get_clean_text(s0, Keywords[1])
        b == get_clean_text(a.soup, Keywords[2])
        c == get_clean_text(b.soup, Keywords[3])
    IN  [out |-> IF AttributeError \in {a.text, b.text, c.text}
                   THEN Raised ELSE <<a.text, b.text, c.text>>,
         soup |-> c.soup]

\* one call of extract_text_sections on the snapshot
ExtractCall ==
    /\ pc = "extract"
    /\ Len(outs) < MaxCalls
    /\ LET r == extract_text_sections(BeautifulSoup(html_content))
       IN  /\ outs' = Append(outs, r.out)
           /\ soup' = r.soup
    /\ UNCHANGED <<pc, html_content, means, crawlVars, frontVars>>

ExtractInit ==
    /\ pc = "extract"
    /\ html_content \in SeqsUpTo(Elements, MaxBlocks)
    /\ soup = <<>>
    /\ outs = <<>>
    /\ means = <<>>
    /\ NothingCrawled
    /\ AtTheListing

ExtractNext == ExtractCall

\* extract_text_sections called again and again on one snapshot
ExtractSpec == ExtractInit /\ [][ExtractNext]_vars

\* ---- one row's detail view: snapshot, retry, record, closing ----

\* a faulty test that forgets the id
NeedsRetryWithoutId(summary, job_id) == summary = NotFound

\* if summary == "Not Found" and job_id != "N/A"
NeedsRetry(summary, job_id) == summary = NotFound /\ job_id # NA

\* html = page.content(); extract_text_sections(html): the first snapshot
Snapshot ==
    /\ pc = "snapshot"
    /\ LET r == extract_text_sections(BeautifulSoup(html_content))
       IN  /\ outs' = <<r.out>>
           /\ soup' = r.soup
           /\ pc' = IF NeedsRetry(r.out[1], cur.id) THEN "resnapshot" ELSE "append"
    /\ UNCHANGED <<html_content, means, crawlVars, frontVars>>

\* during time.sleep(1) the portal goes on rendering the detail view
Render ==
    /\ pc = "resnapshot"
    /\ Len(html_content) < MaxBlocks
    /\ \E e \in Elements : html_content' = Append(html_content, e)
    /\ UNCHANGED <<pc, soup, outs, means, crawlVars, frontVars>>

\* html = page.content(); extract_text_sections(html): the second snapshot
Resnapshot ==
    /\ pc = "resnapshot"
    /\ LET r == extract_text_sections(BeautifulSoup(html_content))
       IN  /\ outs' = Append(outs, r.out)
           /\ soup' = r.soup
    /\ pc' = "append"
    /\ UNCHANGED <<html_content, means, crawlVars, frontVars>>

\* new_data.append({...}) with what the last extraction returned
AppendRecord ==
    /\ pc = "append"
    /\ new_data' = Append(new_data, cur.id)
    /\ cur' = [cur EXCEPT !.extracted = TRUE, !.outcome = "record"]
    /\ pc' = "escape"
    /\ UNCHANGED <<file, prior, last_page, modal, view, all_jobs_df, existing_ids, start_page,
                   current_page, count, i, seen, budget, frontVars, extractVars>>

\* page.keyboard.press("Escape"), time.sleep(0.5): the view closes or stays
PressEscape ==
    /\ pc = "escape"
    /\ means' = Append(means, "escape")
    /\ view' \in (IF view THEN BOOLEAN ELSE {FALSE})
    /\ pc' = "header"
    /\ UNCHANGED <<file, prior, last_page, modal, all_jobs_df, existing_ids, start_page,
                   current_page, count, i, new_data, cur, seen, budget, frontVars,
                   html_content, soup, outs>>

\* a faulty check that takes the header for visible whatever the page shows
is_visibleAlways(shown) == TRUE

\* header_loc.is_visible()
is_visible(shown) == shown

\* if header_loc.is_visible(): the close button's click() run as a script,
\* any error of it swallowed
ScriptClose ==
    /\ pc = "header"
    /\ IF is_visible(view)
         THEN /\ means' = Append(means, "script")
              /\ view' \in (IF view THEN BOOLEAN ELSE {FALSE})
         ELSE UNCHANGED <<means, view>>
    /\ pc' = "closed"
    /\ UNCHANGED <<file, prior, last_page, modal, all_jobs_df, existing_ids, start_page,
                   current_page, count, i, new_data, cur, seen, budget, frontVars,
                   html_content, soup, outs>>

\* the detail view of one row is open, its id read and found not to be a
\* duplicate
DetailInit ==
    /\ pc = "snapshot"
    /\ html_content \in SeqsUpTo(Elements, MaxBlocks)
    /\ soup = <<>>
    /\ outs = <<>>
    /\ means = <<>>
    /\ file = AbsentFile
    /\ prior = AbsentFile
    /\ last_page = 1
    /\ modal = FALSE
    /\ view = TRUE
    /\ all_jobs_df = EmptyDF
    /\ existing_ids = {}
    /\ start_page = 1
    /\ current_page = 1
    /\ count = 1
    /\ i = 0
    /\ new_data = <<>>
    /\ \E id \in {NA, IdPool[1]} :
         cur = [NoRow EXCEPT !.kind = "link", !.clicks = 1, !.success = TRUE,
                             !.opened = TRUE, !.id = id]
    /\ seen = {}
    /\ budget = 0
    /\ AtTheListing

DetailNext == Snapshot \/ Render \/ Resnapshot \/ AppendRecord \/ PressEscape \/ ScriptClose

\* scrape_current_page from the snapshot of a row's detail view to its closing
DetailSpec == DetailInit /\ [][DetailNext]_vars

\* ---- properties of the persisted result set ----

ScanPcs == {"row", "click", "detail", "close", "rowend"}
NoRepeat(s) == \A a, b \in 1..Len(s) : a # b => s[a] # s[b]
IsPrefix(s, t) == Len(s) <= Len(t) /\ SubSeq(t, 1, Len(s)) = s
IsSuffix(s, t) == Len(s) <= Len(t) /\ SubSeq(t, Len(t) - Len(s) + 1, Len(t)) = s

\* C1: after a run has ended, fresh or resumed, no two records of the
\* persisted result set carry the same Job ID (given that the destination
\* the run started from had none).
C1_NoDuplicateJobIds ==
    (pc = "done" /\ file.state = "ok" /\ NoRepeat(prior.ids)) => NoRepeat(file.ids)

\* C2: on a run resumed from a destination with n records, every completed
\* write of the destination, the final one included, still holds those n
\* records, unchanged and in place, in front of the new ones.
C2_PriorRecordsKept ==
    (prior.state = "ok" /\ file.state = "ok")
        => (IsPrefix(prior.ids, file.ids) /\ file.bulk = prior.bulk)

\* C3: once a main-loop iteration whose scan returned at least one record is
\* over, the destination is readable and reading it back gives as many
\* records as all_jobs_df holds at that moment.
C3_SnapshotMatchesMemory ==
    (pc \in {"next", "loop", "done"} /\ new_data # <<>>)
        => /\ file.state = "ok"
           /\ LenDF(ReadExcel(file)) = LenDF(all_jobs_df)
           /\ IsSuffix(new_data, file.ids)

\* a resumed run has saved the records of a page and is about to scan the next
C3_Witness ==
    /\ pc = "loop"
    /\ prior.state = "ok"
    /\ Len(new_data) >= 1
    /\ file.state = "ok"
    /\ LenDF(file) = LenDF(prior) + Len(new_data)

\* C4: whenever the process is killed, the destination is absent (nothing was
\* ever written) or a complete snapshot that a following run can load.
C4_KilledLeavesSnapshot ==
    (pc = "killed" /\ prior.state # "unreadable") => file.state \in {"absent", "ok"}

\* ---- properties of scrape_current_page ----

\* the row under the cursor has a visible, titled link, its detail view opened
\* and was read without error, and its id is the placeholder or not yet known
RowQualifies ==
    /\ cur.kind = "link"
    /\ cur.opened
    /\ cur.extracted
    /\ (cur.id = NA \/ cur.id \notin existing_ids)

\* the same with the placeholder treated like any other id
RowQualifiesStrictly ==
    /\ cur.kind = "link"
    /\ cur.opened
    /\ cur.extracted
    /\ cur.id \notin existing_ids

\* C5: a posting whose id cannot be determined (Job ID "N/A") is never
\* discarded by the duplicate check: once its detail view is read it is in the
\* returned records, and the records returned for a page are the tail of the
\* destination after the save.  The placeholder does enter existing_ids, but
\* membership of "N/A" never decides anything.
C5_PlaceholderRetained ==
    /\ (pc \in {"close", "rowend"} /\ cur.opened /\ cur.id = NA)
          => /\ cur.outcome # "duplicate"
             /\ cur.extracted => new_data = Append(cur.before, NA)
    /\ (pc \in {"next", "loop", "done"} /\ new_data # <<>>)
          => (file.state = "ok" /\ IsSuffix(new_data, file.ids))

\* a placeholder row is kept although "N/A" already is in existing_ids
C5_Witness ==
    /\ pc = "rowend"
    /\ cur.id = NA
    /\ cur.outcome = "record"
    /\ NA \in existing_ids
    /\ new_data = Append(cur.before, NA)

\* C5 as the specification words it: the same, and "N/A" is never a member
\* of existing_ids.
C5_PlaceholderNeverInExistingIds ==
    /\ C5_PlaceholderRetained
    /\ NA \notin existing_ids

\* C6: scrape_current_page appends, in row order, exactly one record for each
\* row that has a visible titled link, whose detail view opens and is read
\* without error, and whose id is "N/A" or not in existing_ids; every other
\* row adds nothing, and no returned record carries a determined id that is
\* in existing_ids.
C6_ReturnsNewRows ==
    /\ pc = "rowend"
          => new_data = IF RowQualifies THEN Append(cur.before, cur.id) ELSE cur.before
    /\ pc \in ScanPcs
          => \A k \in 1..Len(new_data) :
                 new_data[k] = NA \/ new_data[k] \notin existing_ids

\* a page on which one row was returned and a later row was a duplicate
C6_Witness ==
    /\ pc = "rowend"
    /\ cur.outcome = "duplicate"
    /\ cur.id \in existing_ids
    /\ Len(new_data) >= 1
    /\ new_data = cur.before

\* C6 as the specification words it: a row is returned exactly when its id is
\* not in existing_ids, and no returned record carries an id in existing_ids.
C6_ReturnsRowsNotInExistingIds ==
    /\ pc = "rowend"
          => new_data = IF RowQualifiesStrictly THEN Append(cur.before, cur.id)
                                                ELSE cur.before
    /\ pc \in ScanPcs
          => \A k \in 1..Len(new_data) : new_data[k] \notin existing_ids

ClickRetryInv ==
    /\ cur.clicks <= 3
    /\ cur.dismissed <= cur.blocked
    /\ pc = "click" => cur.clicks < 3
    /\ (pc = "rowend" /\ cur.retried)
          => new_data = IF RowQualifies THEN Append(cur.before, cur.id) ELSE cur.before
    /\ (pc = "rowend" /\ ~cur.success) => new_data = cur.before

\* the part of C8 about one click attempt made while the modal is up
ClickRetryStep ==
    (pc = "click" /\ modal /\ pc' # "killed")
        => /\ cur'.clicks = cur.clicks + 1
           /\ cur'.blocked = cur.blocked + 1
           /\ cur'.dismissed \in {cur.dismissed, cur.dismissed + 1}
           /\ cur'.dismissed = cur.dismissed + 1 <=> ~modal'
           /\ ~cur'.success
           /\ pc' = IF cur.clicks + 1 < 3 THEN "click" ELSE "rowend"

\* C8: the link of a row is clicked at most 3 times.  A click blocked by the
\* keep-alive modal is followed by one handle_keep_alive call, which
\* dismisses the modal unless the dismissal itself fails, and, unless it was
\* the third attempt, by another click.  When a later attempt succeeds the row
\* yields one record if its detail view opens, is read without error and
\* shows an id that is "N/A" or not in existing_ids, and none otherwise; when
\* no attempt succeeds the row yields no record.
C8_ClickRetry == []ClickRetryInv /\ [][ClickRetryStep]_vars

\* a click that succeeded after a blocked attempt, and the row gave a record
C8_Witness ==
    /\ pc = "rowend"
    /\ cur.retried
    /\ cur.success
    /\ cur.outcome = "record"
    /\ new_data = Append(cur.before, cur.id)

\* C8 as the specification words it: every blocked click is dismissed and
\* retried, and a row whose click succeeds on a retry yields exactly one
\* record.
C8_RetryAlwaysYieldsRecord ==
    /\ cur.clicks <= 3
    /\ cur.dismissed = cur.blocked
    /\ (pc = "rowend" /\ cur.retried) => new_data = Append(cur.before, cur.id)
    /\ (pc = "rowend" /\ ~cur.success) => new_data = cur.before

\* C9: the checkpoint load yields (empty set, 1) when there is no destination,
\* and otherwise the set of the Job IDs the destination holds together with
\* floor(record count / JOBS_PER_PAGE_GUESS) + 1.
C9_CheckpointLoad ==
    (pc = "filters" /\ prior.state \in {"absent", "ok"})
        => IF prior.state = "absent"
             THEN existing_ids = {} /\ start_page = 1
             ELSE /\ existing_ids = Range(prior.ids)
                  /\ start_page = (LenDF(prior) \div 50) + 1

\* C10: the crawl ends.  A page is scanned only while current_page is at most
\* MAX_PAGES, the loop is left right after a scan when the next-page control
\* is absent or disabled, and every run reaches its end.
C10_CrawlTerminates ==
    /\ [](pc \in ScanPcs \cup {"merge", "saving", "next"} => current_page <= 300)
    /\ [][(pc = "next" /\ current_page >= last_page /\ pc' # "killed")
             => pc' \in {"next", "done"}]_vars
    /\ [][(pc = "loop" /\ current_page > 300 /\ pc' # "killed")
             => pc' \in {"loop", "done"}]_vars
    /\ <>(pc \in Final)

\* the loop was left at the ceiling, with a next page still on offer
C10_Witness ==
    /\ pc = "done"
    /\ current_page = 301
    /\ last_page > 300

\* ---- properties of the start of a run ----

\* C11: a transport or navigation error of the goto that validates the
\* restored session is never fatal: the step that meets it starts the login
\* sequence (perform_login is called) and the process does not end there.
C11_ProbeErrorStartsLogin ==
    [][(pc = "validate" /\ probe' = "error") => (pc' = "login" /\ pc' # "crashed")]_vars

\* the login sequence was started from the except branch after such an error
C11_Witness ==
    /\ probe = "error"
    /\ pc = "login"
    /\ ~in_try

\* C12: main() gets past the login (navigation, scrape_all_pages) only with
\* an authenticated session, and perform_login reaches its storage_state
\* call, and so its return, only with an authenticated session.
C12_OnlyAuthenticatedProceeds ==
    /\ pc \in PastLogin => session = "authenticated"
    /\ pc = "save_session" => session = "authenticated"

\* C13: with USERNAME or PASSWORD absent from the environment the program
\* never gets to navigation or scanning, whatever AUTH_FILE holds.
C13_MissingCredentialsFatal ==
    (USERNAME = None \/ PASSWORD = None) => pc \notin PastLogin

C15_NavigationAndFilterErrorsReturn ==
    [][/\ pc = "navigate" => pc' = "load"
       /\ pc = "filters" => pc' = "ff"]_vars

\* the run is at the fast-forward after both calls failed
C15_Witness ==
    /\ pc = "ff"
    /\ nav = "failed"
    /\ applied.step \in {"no_button", "no_dropdown", "error"}

\* ---- properties of extract_text_sections ----

\* the first label span of the snapshot that holds the keyword of field f,
\* 0 if there is none
FirstLabel(f) ==
    LET hits == {k \in 1..Len(html_content) : Keywords[f] \in html_content[k].keys}
    IN  IF hits = {} THEN 0 ELSE CHOOSE k \in hits : \A j \in hits : k <= j

\* field f has no label, or its label has no key-value container
Missing(f) ==
    \/ FirstLabel(f) = 0
    \/ find_parent(BeautifulSoup(html_content), FirstLabel(f)) = 0

\* field f has a label of its own inside a key-value container
Labelled(f) ==
    /\ FirstLabel(f) # 0
    /\ find_parent(BeautifulSoup(html_content), FirstLabel(f)) # 0
    /\ html_content[FirstLabel(f)].keys = {Keywords[f]}

C17_MissingLabelGivesSentinel ==
    \A n \in 1..Len(outs) :
        /\ outs[n] # Raised
        /\ \A f \in 1..3 :
             Missing(f)
                 => /\ outs[n][f] = NotFound
                    /\ \A g \in (1..3) \ {f} :
                         Labelled(g)
                             => /\ outs[n][g] # NotFound
                                /\ {html_content[FirstLabel(g)].text} \in Range(outs[n][g])

\* the summary label is missing and the responsibilities were extracted
C17_Witness ==
    /\ Len(outs) >= 1
    /\ Missing(1)
    /\ Labelled(2)
    /\ outs[1][1] = NotFound
    /\ outs[1][2] = <<{html_content[FirstLabel(2)].text}>>

\* ---- properties of the crawl under the keep-alive modal ----

\* C18: the keep-alive modal, whenever it comes up, never makes the crawl end
\* in an exception: no run is ended by an uncaught error with the modal up.
C18_ModalNeverStopsCrawl == pc = "crashed" => ~modal

\* C19: a click attempt that fails with no modal on the page ends the click
\* loop: a further attempt is pending only when every attempt made so far
\* was blocked by the modal, and a row with such a failure yields no record.
C19_UnrelatedFailureAbandonsRow ==
    /\ pc = "click" => cur.clicks = cur.blocked
    /\ (pc = "rowend" /\ cur.outcome = "abandoned") => new_data = cur.before

\* C20: a row whose id is already in existing_ids is left without a
\* snapshot, without a record, and with its detail view closed.
C20_DuplicateClosedWithoutExtraction ==
    (pc = "rowend" /\ cur.outcome = "duplicate")
        => /\ ~cur.extracted
           /\ new_data = cur.before
           /\ ~view

\* ---- properties of one row's detail view ----

\* C21: for one row the detail view is snapshotted and extracted once or
\* twice, never more; there is a second snapshot exactly when the first
\* extraction gave "Not Found" for the summary and the row's id was found,
\* and none when the id is "N/A" or the summary was found.
C21_AtMostTwoSnapshots ==
    /\ Len(outs) <= 2
    /\ pc # "snapshot" => Len(outs) >= 1
    /\ Len(outs) = 2 => outs[1][1] = NotFound /\ cur.id # NA
    /\ pc \in {"append", "escape", "header", "closed"} /\ Len(outs) = 1
           => outs[1][1] # NotFound \/ cur.id = NA

\* a second snapshot was taken, and it found the summary the first had missed
C21_Witness ==
    /\ pc = "closed"
    /\ Len(outs) = 2
    /\ outs[1][1] = NotFound
    /\ outs[2][1] # NotFound
    /\ new_data = <<cur.id>>

\* C22: closing a detail view tries the direct close control first, the
\* escape key only after it, and the script-level invocation of the close
\* control last.
C22_DirectCloseFirst ==
    /\ means # <<>> => means[1] = "click"
    /\ IsPrefix(means, <<"click", "escape", "script">>)

\* C22, as the code has it: closing presses the escape key first and invokes
\* the close control by script after it, exactly when the header is still
\* visible then; the close control is never clicked directly.
C22_EscapeThenScript ==
    /\ [](IsPrefix(means, <<"escape", "script">>))
    /\ [][pc = "header" /\ pc' = "closed"
             => IF view THEN means' = <<"escape", "script">> ELSE means' = <<"escape">>]_vars

\* the escape key left the view open and the script closed it
C22_Witness ==
    /\ pc = "closed"
    /\ means = <<"escape", "script">>
    /\ ~view
    /\ cur.outcome = "record"

\* ---- the order of the three extractions ----

\* the orders in which the three fields can be extracted
Orders == {o \in [1..3 -> 1..3] : \A a, b \in 1..3 : a # b => o[a] # o[b]}

\* the three get_clean_text calls made on one tree in the order o, the
\* results given by field
ExtractInOrder(s0, o) ==
    LET a == get_clean_text(s0, Keywords[o[1]])
        b == get_clean_text(a.soup, Keywords[o[2]])
        c == get_clean_text(b.soup, Keywords[o[3]])
        r == <<a.text, b.text, c.text>>
    IN  [f \in 1..3 |-> r[CHOOSE k \in 1..3 : o[k] = f]]

\* the field extracted alone from a fresh tree
ExtractAlone(f) == get_clean_text(BeautifulSoup(html_content), Keywords[f]).text

\* every label span holds one keyword, and no container holds two label spans
SeparateLabels ==
    LET t == BeautifulSoup(html_content)
    IN  /\ \A k \in 1..Len(t) : Cardinality(t[k].keys) <= 1
        /\ \A j, k \in 1..Len(t) :
               j < k /\ t[j].label /\ t[k].label
                   => find_parent(t, j) = 0 \/ find_parent(t, j) # find_parent(t, k)

C23_FastForward ==
    /\ [](pc = "ff" => /\ current_page <= start_page
                       /\ count = 0 /\ new_data = <<>> /\ cur = NoRow
                       /\ file = prior)
    /\ [][/\ pc # "ff" /\ pc' = "ff" => current_page' = 1
          /\ pc = "ff" /\ pc' = "ff" /\ current_page' # current_page
                => /\ current_page' = current_page + 1
                   /\ current_page < start_page
                   /\ "enabled" \in NextControl(current_page)
          /\ pc = "ff" /\ pc' \notin {"ff", "killed", "crashed"}
                => /\ pc' = "loop"
                   /\ current_page' = current_page
                   /\ \/ current_page = start_page
                      \/ "enabled" \notin NextControl(current_page)]_vars

\* a resumed run has skipped to its start page and scans a row of it
C23_Witness ==
    /\ pc = "row"
    /\ start_page > 1
    /\ current_page = start_page
    /\ all_jobs_df = ReadExcel(prior)

\* positions of one pass of the main loop
IterationPcs == ScanPcs \cup {"loop", "merge", "saving", "next"}

\* C24: a pass of the main loop whose scan returned no new record writes
\* nothing: the destination, all_jobs_df and existing_ids stay as they are;
\* a pass whose scan returned a record goes on to write the destination, and
\* within a pass nothing else changes any of the three.
C24_NoNewRecordsNoWrite ==
    [][/\ pc = "merge" /\ new_data = <<>> /\ pc' # "killed"
            => /\ UNCHANGED <<file, all_jobs_df, existing_ids>>
               /\ pc' \in {"merge", "next"}
       /\ pc = "merge" /\ new_data # <<>> /\ pc' \notin {"merge", "killed"}
            => /\ pc' = "saving"
               /\ all_jobs_df' = Concat(all_jobs_df, new_data)
       /\ pc = "saving" /\ pc' \notin {"saving", "killed"}
            => file' = ToExcel(all_jobs_df) /\ new_data # <<>>
       /\ (pc \in IterationPcs /\ pc' \notin {"killed", "crashed"}
              /\ <<file, all_jobs_df, existing_ids>>' # <<file, all_jobs_df, existing_ids>>)
            => pc \in {"merge", "saving"} /\ new_data # <<>>]_vars

\* a resumed run has scanned a page that gave nothing new, and the
\* destination and the records in memory are as loaded
C24_Witness ==
    /\ pc = "next"
    /\ new_data = <<>>
    /\ file = prior
    /\ existing_ids # {}
    /\ all_jobs_df = ReadExcel(prior)
    /\ budget < MaxListed

C30_DuplicateDecisionFromCallStart ==
    /\ [](pc \in {"close", "rowend"} /\ cur.opened
             => (cur.outcome = "duplicate" <=> cur.id # NA /\ cur.id \in existing_ids))
    /\ [][(pc \in ScanPcs /\ pc' \in ScanPcs \cup {"merge"})
             => existing_ids' = existing_ids]_vars

\* a row is found a duplicate after an earlier row of the page gave a record
C30_Witness ==
    /\ pc = "rowend"
    /\ cur.outcome = "duplicate"
    /\ new_data # <<>>
    /\ cur.id \in existing_ids
    /\ cur.id \notin Range(new_data)

\* ---- properties of the session during and before the crawl ----

\* C26: a session that becomes invalid after it was authenticated makes the
\* controller log in again and the crawl goes on: no run ends, as complete
\* or in an error, on a session the portal no longer accepts.
C26_InvalidSessionStartsLogin == pc \in {"done", "crashed"} => session = "authenticated"

\* C27: once the login form is submitted, perform_login leaves the wait for
\* the dashboard only by the dashboard being reached, with the session
\* authenticated; it does not time out, fail or go on otherwise, however
\* long the second factor is outstanding. Every other wait of main() before
\* the crawl ends by itself: a run that is not waiting for the dashboard
\* gets to the first scan or ends.
C27_OnlyDashboardWaitUnbounded ==
    /\ [][pc = "await_dashboard" /\ pc' # "await_dashboard"
             => pc' = "save_session" /\ session' = "authenticated" /\ url' = "dashboard"]_vars
    /\ []<>(pc \in {"await_dashboard", "merge", "crashed"})

\* the dashboard was reached after a submitted form, and the run went on to
\* its first scan
C27_Witness ==
    /\ pc = "merge"
    /\ runs = 1
    /\ auth_file = "authenticated"
    /\ probe = "notLoggedIn"
    /\ session = "authenticated"

\* the stages of a run as scrape_all_pages has them
StageInCode ==
    [p \in SessionPcs |-> 1] @@ ("navigate" :> 2) @@ ("load" :> 3) @@ ("filters" :> 4)
        @@ ("ff" :> 5) @@ ("loop" :> 6) @@ ("merge" :> 6)

\* C28: a run goes through its stages in the order authenticate, navigate,
\* apply filters, checkpoint load, fast-forward, scan: the checkpoint is
\* loaded only after the filters have been applied: wherever a run is past
\* the loading of the checkpoint, apply_filters has been called in it.
C28_CheckpointAfterFilters ==
    pc \in {"filters", "ff", "loop", "merge"} => applied.step # "none"

\* C28, as the code has it: the order is authenticate, navigate, checkpoint
\* load, apply filters, fast-forward, scan; a run moves from a stage to the
\* next one only, and fast-forward and scanning come after the checkpoint
\* was loaded and apply_filters was called.
C28_StagesInOrder ==
    /\ [](pc \in {"ff", "loop", "merge"} => applied.step # "none")
    /\ [](pc \in {"load", "filters", "ff", "loop", "merge"} => nav # "none")
    /\ [][pc' # pc /\ pc' \in DOMAIN StageInCode /\ runs' = runs
             => /\ pc \in DOMAIN StageInCode
                /\ StageInCode[pc'] \in {StageInCode[pc], StageInCode[pc] + 1}]_vars

\* the first scan of a run was reached with the filters applied
C28_Witness ==
    /\ pc = "merge"
    /\ applied.step = "ok"
    /\ nav = "ok"
    /\ runs = 1
    /\ probe = "dashboard"

\* ---- further properties of the crawl and of the login ----

C32_OpenedViewClosedOnEveryPath ==
    (pc = "rowend" /\ cur.opened /\ view) => cur.outcome \in {"record", "failed"}

\* perform_login is running
LoginPcs == {"login", "credentials", "await_dashboard", "save_session"}

\* C33: during one startup perform_login is started at most once: the
\* login sequence is never under way after a call of it has raised.
C33_LoginStartedOnce ==
    (pc \in LoginPcs /\ probe = "notLoggedIn") => in_try

\* what main() does guarantee in place of C33: perform_login is started at
\* most twice during one startup; it is started again only by an error
\* raised in the call made inside main's try block, and that restart takes
\* the call out of the try block for good; the call made from the except
\* branch is never started again.
C33_LoginStartedAtMostTwice ==
    /\ [][(pc \in LoginPcs /\ pc' = "login")
             => in_try /\ ~in_try' /\ probe = "notLoggedIn"]_vars
    /\ [][(in_try' /\ ~in_try) => pc = "validate"]_vars
    /\ [](in_try => pc \in LoginPcs /\ probe = "notLoggedIn")

\* the call in the try block raised, and the call of the except branch
\* has got as far as the form
C33_Witness ==
    /\ pc = "credentials"
    /\ probe = "notLoggedIn"
    /\ ~in_try
    /\ runs = 1
====
